---- MODULE Spec2Model ----
(***************************************************************************)
(* Progressive catalog search (src/src/assets/search.js): the chunk        *)
(* cursor, the debounced reset, the filter predicate and the renderer,     *)
(* as one state machine.  JavaScript runs each handler to completion, so   *)
(* one action is one handler run up to its next await.                     *)
(***************************************************************************)
EXTENDS Integers, Sequences, FiniteSets, TLC

\* ---------------------------------------------------------------- bounds
\* chunks of the largest dataset; filter mutations of a session
NumChunks == 2
MaxMutations == 2

\* --------------------------------------------------------------- strings
\* A string is a sequence of one-character strings.
Lower(c) ==
  CASE c = "A" -> "a" [] c = "B" -> "b" [] c = "X" -> "x" [] c = "Y" -> "y"
    [] OTHER -> c

RECURSIVE TrimLeft(_)
TrimLeft(s) == IF s # <<>> /\ Head(s) = " " THEN TrimLeft(Tail(s)) ELSE s

RECURSIVE TrimRight(_)
TrimRight(s) ==
  IF s # <<>> /\ s[Len(s)] = " " THEN TrimRight(SubSeq(s, 1, Len(s) - 1)) ELSE s

\* (variant: the case is kept)
norm_KeepsCase(s) == TrimRight(TrimLeft(s))

norm(s) == TrimRight(TrimLeft([i \in DOMAIN s |-> Lower(s[i])]))

RECURSIVE JoinSpace(_)
JoinSpace(ss) ==
  IF ss = <<>> THEN <<>>
  ELSE IF Len(ss) = 1 THEN ss[1]
  ELSE ss[1] \o <<" ">> \o JoinSpace(Tail(ss))

StrIncludes(hay, q) ==
  \E i \in 1..(Len(hay) - Len(q) + 1) : SubSeq(hay, i, i + Len(q) - 1) = q

ArrIncludes(arr, x) == \E i \in DOMAIN arr : arr[i] = x

\* ------------------------------------------------------ filter predicate
DefaultState ==
  [q |-> <<>>, maker |-> <<>>, series |-> <<>>,
   hasImg |-> FALSE, hasMov |-> FALSE, tags |-> {}]

Haystack(it) ==
  JoinSpace([i \in 1..(3 + Len(it.tags) + Len(it.actresses)) |->
               norm((<<it.title, it.maker, it.series>> \o it.tags \o it.actresses)[i])])

\* (variant: the maker test lacks its `state.maker &&` guard)
matchItem_MakerUnguarded(st, it) ==
  IF st.hasImg /\ ~it.has_img THEN FALSE
  ELSE IF st.hasMov /\ ~it.has_mov THEN FALSE
  ELSE IF it.maker # st.maker THEN FALSE
  ELSE IF st.series # <<>> /\ it.series # st.series THEN FALSE
  ELSE IF \E t \in st.tags : ~ArrIncludes(it.tags, t) THEN FALSE
  ELSE IF norm(st.q) = <<>> THEN TRUE
  ELSE StrIncludes(Haystack(it), norm(st.q))

\* (variant: the movie test reads has_img)
matchItem_MovChecksImg(st, it) ==
  IF st.hasImg /\ ~it.has_img THEN FALSE
  ELSE IF st.hasMov /\ ~it.has_img THEN FALSE
  ELSE IF st.maker # <<>> /\ it.maker # st.maker THEN FALSE
  ELSE IF st.series # <<>> /\ it.series # st.series THEN FALSE
  ELSE IF \E t \in st.tags : ~ArrIncludes(it.tags, t) THEN FALSE
  ELSE IF norm(st.q) = <<>> THEN TRUE
  ELSE StrIncludes(Haystack(it), norm(st.q))

\* (variant: one selected tag is enough)
matchItem_AnyTag(st, it) ==
  IF st.hasImg /\ ~it.has_img THEN FALSE
  ELSE IF st.hasMov /\ ~it.has_mov THEN FALSE
  ELSE IF st.maker # <<>> /\ it.maker # st.maker THEN FALSE
  ELSE IF st.series # <<>> /\ it.series # st.series THEN FALSE
  ELSE IF st.tags # {} /\ \A t \in st.tags : ~ArrIncludes(it.tags, t) THEN FALSE
  ELSE IF norm(st.q) = <<>> THEN TRUE
  ELSE StrIncludes(Haystack(it), norm(st.q))

\* (variant: the maker is compared after normalisation)
matchItem_MakerIgnoresCase(st, it) ==
  IF st.hasImg /\ ~it.has_img THEN FALSE
  ELSE IF st.hasMov /\ ~it.has_mov THEN FALSE
  ELSE IF st.maker # <<>> /\ norm(it.maker) # norm(st.maker) THEN FALSE
  ELSE IF st.series # <<>> /\ it.series # st.series THEN FALSE
  ELSE IF \E t \in st.tags : ~ArrIncludes(it.tags, t) THEN FALSE
  ELSE IF norm(st.q) = <<>> THEN TRUE
  ELSE StrIncludes(Haystack(it), norm(st.q))

matchItem(st, it) ==
  IF st.hasImg /\ ~it.has_img THEN FALSE
  ELSE IF st.hasMov /\ ~it.has_mov THEN FALSE
  ELSE IF st.maker # <<>> /\ it.maker # st.maker THEN FALSE
  ELSE IF st.series # <<>> /\ it.series # st.series THEN FALSE
  ELSE IF \E t \in st.tags : ~ArrIncludes(it.tags, t) THEN FALSE
  ELSE IF norm(st.q) = <<>> THEN TRUE
  ELSE StrIncludes(Haystack(it), norm(st.q))

\* A card is identified by the id of the item it renders.
createCard(it) == it.id

\* ---------------------------------------------------------- the dataset
MakerX == <<"X">>
MakerY == <<"Y">>
SeriesS == <<"s">>
TagT == <<"t">>

\* Item k of the export.  Of the first five items only item 2 has a movie.
Item(k) ==
  [id        |-> k,
   title     |-> IF k % 2 = 1 THEN <<"A", "b">> ELSE <<"b">>,
   maker     |-> IF k % 3 = 0 THEN MakerX ELSE MakerY,
   series    |-> IF k % 2 = 0 THEN SeriesS ELSE <<>>,
   tags      |-> IF k % 3 = 1 THEN <<TagT>> ELSE <<>>,
   actresses |-> IF k % 4 = 0 THEN << <<"A">> >> ELSE <<>>,
   has_img   |-> k % 2 = 1,
   has_mov   |-> k % 4 = 2]

\* Chunks hold three and two items in turn: chunk c starts after FirstOf(c).
SizeOf(c) == IF c % 2 = 1 THEN 3 ELSE 2

RECURSIVE FirstOf(_)
FirstOf(c) == IF c = 1 THEN 0 ELSE FirstOf(c - 1) + SizeOf(c - 1)

ChunkPayload(c) == [j \in 1..SizeOf(c) |-> Item(FirstOf(c) + j)]

\* What the export job published: the manifest and one payload per chunk file.
Dataset(n) ==
  [manifest |-> [total |-> FirstOf(n + 1),
                 chunks |-> [c \in 1..n |-> [file |-> c]]],
   files    |-> [c \in 1..n |-> ChunkPayload(c)]]

Datasets == {Dataset(n) : n \in 0..NumChunks}

\* Values the input controls can deliver.
TextInputs == {<<>>, <<" ", "A">>}
MakerOptions == {<<>>, MakerX}
SeriesOptions == {<<>>, SeriesS}
TagButtons == {TagT}

\* ------------------------------------------- the schedule time (GUI)
Digits == <<"0", "1", "2", "3", "4", "5", "6", "7", "8", "9">>

IsDigit(c) == \E n \in DOMAIN Digits : Digits[n] = c

DigitVal(c) == (CHOOSE n \in DOMAIN Digits : Digits[n] = c) - 1

\* int() of a text of decimal digits; anything else is a ValueError.
IsInt(p) == p # <<>> /\ \A i \in DOMAIN p : IsDigit(p[i])

RECURSIVE IntOf(_)
IntOf(p) ==
  IF p = <<>> THEN 0
  ELSE IntOf(SubSeq(p, 1, Len(p) - 1)) * 10 + DigitVal(p[Len(p)])

\* The decimal numeral of a natural number, as "{n}" formats it.
RECURSIVE Dec(_)
Dec(n) == IF n < 10 THEN <<Digits[n + 1]>> ELSE Dec(n \div 10) \o <<Digits[(n % 10) + 1]>>

\* (variant: no zero is put in front)
Pad2_NoPad(n) == Dec(n)

\* "{n:02d}"
Pad2(n) == IF n < 10 THEN <<"0">> \o Dec(n) ELSE Dec(n)

\* str.split(): the maximal runs without a space.
RECURSIVE Split(_)
Split(s) ==
  LET t == TrimLeft(s) IN
  IF t = <<>> THEN <<>>
  ELSE LET ends == {i \in DOMAIN t : t[i] = " "} \cup {Len(t) + 1}
           n == CHOOSE i \in ends : \A j \in ends : i <= j
       IN <<SubSeq(t, 1, n - 1)>> \o Split(SubSeq(t, n, Len(t)))

NoResult == [kind |-> "none", text |-> <<>>]
Returned(t) == [kind |-> "value", text |-> t]
ReturnedNone == [kind |-> "None", text |-> <<>>]
RaisedValueError == [kind |-> "ValueError", text |-> <<>>]

cron_to_jst_time(c) ==
  LET parts == Split(c) IN
  IF Len(parts) < 2 THEN ReturnedNone
  ELSE IF ~IsInt(parts[1]) \/ ~IsInt(parts[2]) THEN ReturnedNone
  ELSE LET minute == IntOf(parts[1])
           hour_utc == IntOf(parts[2])
           hour_jst == (hour_utc + 9) % 24
       IN Returned(Pad2(hour_jst) \o <<":">> \o Pad2(minute))

\* re.match(r"^(\d{1,2}):(\d{2})$", t): the two groups, or <<>>.
MatchTime(t) ==
  IF /\ Len(t) \in {4, 5}
     /\ t[Len(t) - 2] = ":"
     /\ \A i \in DOMAIN t : i # Len(t) - 2 => IsDigit(t[i])
  THEN <<SubSeq(t, 1, Len(t) - 3), SubSeq(t, Len(t) - 1, Len(t))>>
  ELSE <<>>

jst_time_to_cron(t) ==
  LET m == MatchTime(TrimRight(TrimLeft(t))) IN
  IF m = <<>> THEN RaisedValueError
  ELSE LET hh == IntOf(m[1])
           mm == IntOf(m[2])
       IN IF ~(0 <= hh /\ hh <= 23 /\ 0 <= mm /\ mm <= 59) THEN RaisedValueError
          ELSE LET hour_utc == (hh - 9) % 24
               IN Returned(Dec(mm) \o <<" ">> \o Dec(hour_utc) \o
                           <<" ", "*", " ", "*", " ", "*">>)

\* The texts typed into the schedule field: every one or two digits, a
\* colon and two digits, and some texts of another shape.
TimeTexts ==
  {<<Digits[a], Digits[b], ":", Digits[c], Digits[d]>> :
     a \in DOMAIN Digits, b \in DOMAIN Digits, c \in DOMAIN Digits, d \in DOMAIN Digits}
  \cup {<<Digits[b], ":", Digits[c], Digits[d]>> :
     b \in DOMAIN Digits, c \in DOMAIN Digits, d \in DOMAIN Digits}
  \cup {<<>>, <<"7", ":", "5">>, <<"0", "7", "0", "5">>, <<"0", "7", "-", "0", "5">>,
        <<" ", "0", "7", ":", "0", "5", " ">>, <<"0", "0", "7", ":", "0", "5">>,
        <<"a", "7", ":", "0", "5">>, <<"0", "7", ":", "0", "5", "x">>}

\* ------------------------------------------------------------- the state
VARIABLES
  server,        \* the published dataset (fixed during a session)
  initPc,        \* where init() stands
  state,         \* the query state
  manifest,      \* <<>> (null) or <<m>>
  chunks, chunkIndex, loading, scanned, shown,
  elResults,     \* the cards of the result surface, in order
  elStatus,      \* the status line
  debounceTimer, \* number of scheduled debounce callbacks not yet run
  fetches,       \* loadNextChunk invocations suspended at an await
  started,       \* history: chunk indices fetched in this query lifetime
  fetchedOk,     \* history: chunk files fetched and parsed in this session
  lifeQuery,     \* history: the query state the last reset observed
  scannedOk,     \* history: chunk indices of this lifetime scanned as lists
  lastMut,       \* history: whether the filter handler run last was clear-all
  burst,         \* history: filter mutations since the last reset ran
  muts,          \* history: filter mutations of the session
  last,          \* history: the handler that ran last
  probe,         \* a query state and an item handed to matchItem
  verdict,       \* what matchItem answered for the probe
  jst_time,      \* the text handed to jst_time_to_cron
  cron,          \* what jst_time_to_cron returned or raised
  jst            \* what cron_to_jst_time returned for that cron text

vars == <<server, initPc, state, manifest, chunks, chunkIndex, loading, scanned,
          shown, elResults, elStatus, debounceTimer, fetches, started,
          fetchedOk, scannedOk, lastMut, lifeQuery, burst, muts, last,
          probe, verdict, jst_time, cron, jst>>

\* history record of a handler run: the operation, the chunk index it was
\* about, whether loading was set when it ran, whether it began a fetch,
\* whether the response it handled was of a superseded lifetime, the cards
\* it appended and the mutations the reset coalesced.
NoOp ==
  [op |-> "none", idx |-> -1, busy |-> FALSE, began |-> FALSE, stale |-> FALSE,
   hits |-> 0, burst |-> 0]

NoStatus == [kind |-> "none", shown |-> 0, scanned |-> 0, total |-> 0]
FailStatus == [kind |-> "manifestFail", shown |-> 0, scanned |-> 0, total |-> 0]

\* The part of the state clearResults/loadNextChunk/updateStatus work on.
Cur ==
  [manifest |-> manifest, chunks |-> chunks, chunkIndex |-> chunkIndex,
   loading |-> loading, scanned |-> scanned, shown |-> shown,
   elResults |-> elResults, elStatus |-> elStatus, fetches |-> fetches,
   started |-> started, scannedOk |-> scannedOk]

Set(s) ==
  /\ manifest' = s.manifest
  /\ chunks' = s.chunks
  /\ chunkIndex' = s.chunkIndex
  /\ loading' = s.loading
  /\ scanned' = s.scanned
  /\ shown' = s.shown
  /\ elResults' = s.elResults
  /\ elStatus' = s.elStatus
  /\ fetches' = s.fetches
  /\ started' = s.started
  /\ scannedOk' = s.scannedOk

updateStatus(s) ==
  IF s.manifest = <<>> THEN s
  ELSE [s EXCEPT !.elStatus = [kind |-> "counts", shown |-> s.shown,
                               scanned |-> s.scanned,
                               total |-> s.manifest[1].total]]

\* (variant: the cursor survives the reset)
clearResults_KeepCursor(s) ==
  updateStatus(
    [s EXCEPT !.elResults = <<>>,
              !.scanned = 0,
              !.shown = 0,
              !.chunks = IF s.manifest # <<>> THEN s.manifest[1].chunks ELSE <<>>,
              !.started = <<>>,
              !.scannedOk = {},
              !.fetches = [i \in DOMAIN s.fetches |->
                             [s.fetches[i] EXCEPT !.stale = TRUE]]])

\* (variant: the rendered cards are not removed)
clearResults_KeepsCards(s) ==
  updateStatus(
    [s EXCEPT !.chunkIndex = 0,
              !.scanned = 0,
              !.chunks = IF s.manifest # <<>> THEN s.manifest[1].chunks ELSE <<>>,
              !.started = <<>>,
              !.scannedOk = {},
              !.fetches = [i \in DOMAIN s.fetches |->
                             [s.fetches[i] EXCEPT !.stale = TRUE]]])

\* (variant: scanned is not zeroed)
clearResults_KeepsScanned(s) ==
  updateStatus(
    [s EXCEPT !.elResults = <<>>,
              !.chunkIndex = 0,
              !.shown = 0,
              !.chunks = IF s.manifest # <<>> THEN s.manifest[1].chunks ELSE <<>>,
              !.started = <<>>,
              !.scannedOk = {},
              !.fetches = [i \in DOMAIN s.fetches |->
                             [s.fetches[i] EXCEPT !.stale = TRUE]]])

clearResults(s) ==
  updateStatus(
    [s EXCEPT !.elResults = <<>>,
              !.chunkIndex = 0,
              !.scanned = 0,
              !.shown = 0,
              !.chunks = IF s.manifest # <<>> THEN s.manifest[1].chunks ELSE <<>>,
              \* history: a new query lifetime begins
              !.started = <<>>,
              !.scannedOk = {},
              !.fetches = [i \in DOMAIN s.fetches |->
                             [s.fetches[i] EXCEPT !.stale = TRUE]]])

\* (variant: the in-flight check is missing)
CanLoad_NoBusyCheck(s) ==
  /\ s.manifest # <<>>
  /\ ~(s.chunkIndex >= Len(s.chunks))

\* The three early returns of loadNextChunk.
CanLoad(s) ==
  /\ ~s.loading
  /\ s.manifest # <<>>
  /\ ~(s.chunkIndex >= Len(s.chunks))

NewFetch(s, fromInit) ==
  [chunk |-> s.chunks[s.chunkIndex + 1], idx |-> s.chunkIndex,
   stage |-> "fetch", stale |-> FALSE, init |-> fromInit]

\* (variant: the end check is off by one; past the end the chunk is
\* undefined, the cursor moves and the TypeError is caught at once)
loadNextChunk_OffByOne(s, fromInit) ==
  IF s.loading \/ s.manifest = <<>> \/ s.chunkIndex > Len(s.chunks) THEN s
  ELSE IF s.chunkIndex = Len(s.chunks) THEN [s EXCEPT !.chunkIndex = s.chunkIndex + 1]
  ELSE [s EXCEPT !.loading = TRUE,
                 !.chunkIndex = s.chunkIndex + 1,
                 !.fetches = Append(s.fetches, NewFetch(s, fromInit)),
                 !.started = Append(s.started, s.chunkIndex)]

\* (variant: the cursor is not advanced)
loadNextChunk_NoAdvance(s, fromInit) ==
  IF ~CanLoad(s) THEN s
  ELSE [s EXCEPT !.loading = TRUE,
                 !.fetches = Append(s.fetches, NewFetch(s, fromInit)),
                 !.started = Append(s.started, s.chunkIndex)]

\* loadNextChunk up to its first await.
loadNextChunk(s, fromInit) ==
  IF ~CanLoad(s) THEN s
  ELSE [s EXCEPT !.loading = TRUE,
                 !.chunkIndex = s.chunkIndex + 1,
                 !.fetches = Append(s.fetches, NewFetch(s, fromInit)),
                 !.started = Append(s.started, s.chunkIndex)]

Matching(st, items) == SelectSeq(items, LAMBDA it : matchItem(st, it))

\* (variant: only the matches are counted as scanned)
scanItems_CountsHits(s, st, items) ==
  LET hits == Matching(st, items) IN
  updateStatus(
    [s EXCEPT !.scanned = s.scanned + Len(hits),
              !.elResults = s.elResults \o [i \in DOMAIN hits |-> createCard(hits[i])],
              !.shown = s.shown + Len(hits)])

\* (variant: the new cards are put in front of the rendered ones)
scanItems_Prepends(s, st, items) ==
  LET hits == Matching(st, items) IN
  updateStatus(
    [s EXCEPT !.scanned = s.scanned + Len(items),
              !.elResults = [i \in DOMAIN hits |-> createCard(hits[i])] \o s.elResults,
              !.shown = s.shown + Len(hits)])

\* (variant: shown counts every scanned item)
scanItems_ShownCountsItems(s, st, items) ==
  LET hits == Matching(st, items) IN
  updateStatus(
    [s EXCEPT !.scanned = s.scanned + Len(items),
              !.elResults = s.elResults \o [i \in DOMAIN hits |-> createCard(hits[i])],
              !.shown = s.shown + Len(items)])

\* (variant: the status line is not refreshed after the scan)
scanItems_NoStatus(s, st, items) ==
  LET hits == Matching(st, items) IN
    [s EXCEPT !.scanned = s.scanned + Len(items),
              !.elResults = s.elResults \o [i \in DOMAIN hits |-> createCard(hits[i])],
              !.shown = s.shown + Len(hits)]

\* The Array.isArray branch of loadNextChunk.
scanItems(s, st, items) ==
  LET hits == Matching(st, items) IN
  updateStatus(
    [s EXCEPT !.scanned = s.scanned + Len(items),
              !.elResults = s.elResults \o [i \in DOMAIN hits |-> createCard(hits[i])],
              !.shown = s.shown + Len(hits)])

\* (variant: the in-flight flag is not cleared)
finish_KeepsLoading(s, i) ==
  [s EXCEPT !.fetches = SubSeq(s.fetches, 1, i - 1) \o
                        SubSeq(s.fetches, i + 1, Len(s.fetches))]

\* The finally block of loadNextChunk; the invocation i is over.
finish(s, i) ==
  [s EXCEPT !.loading = FALSE,
            !.fetches = SubSeq(s.fetches, 1, i - 1) \o
                        SubSeq(s.fetches, i + 1, Len(s.fetches))]

\* history: the list of invocation r was scanned in the lifetime it began in.
noteScanned(s, r) ==
  IF r.stale THEN s ELSE [s EXCEPT !.scannedOk = s.scannedOk \cup {r.idx}]

\* No probe: the session itself is running.
NoProbe == [st |-> DefaultState, it |-> Item(1)]

Init ==
  /\ server \in Datasets
  /\ initPc = "manifest"
  /\ state = DefaultState
  /\ manifest = <<>>
  /\ chunks = <<>>
  /\ chunkIndex = 0
  /\ loading = FALSE
  /\ scanned = 0
  /\ shown = 0
  /\ elResults = <<>>
  /\ elStatus = NoStatus
  /\ debounceTimer = 0
  /\ fetches = <<>>
  /\ started = <<>>
  /\ fetchedOk = {}
  /\ lifeQuery = DefaultState
  /\ burst = 0
  /\ muts = 0
  /\ last = NoOp
  /\ scannedOk = {}
  /\ lastMut = "none"
  /\ probe = NoProbe
  /\ verdict = "none"
  /\ jst_time = <<>>
  /\ cron = NoResult
  /\ jst = NoResult

\* ------------------------------------------------------------------ init
\* init(): the manifest arrived and parsed; selects and tags are filled,
\* the inputs bound, the first page requested.  With nothing to await the
\* observer is installed in the same run.
InitManifestOk ==
  /\ initPc = "manifest"
  /\ LET s == loadNextChunk(clearResults([Cur EXCEPT !.manifest = <<server.manifest>>]), TRUE)
     IN /\ Set(s)
        /\ initPc' = IF s.loading THEN "firstLoad" ELSE "observing"
        /\ last' = [NoOp EXCEPT !.op = "init", !.began = s.loading]
  /\ lifeQuery' = state
  /\ UNCHANGED <<server, state, debounceTimer, fetchedOk, burst, muts, lastMut, probe, verdict, jst_time, cron, jst>>

\* init(): the manifest fetch or its parse threw.
InitManifestFail ==
  /\ initPc = "manifest"
  /\ initPc' = "halted"
  /\ elStatus' = FailStatus
  /\ last' = [NoOp EXCEPT !.op = "manifestFail"]
  /\ UNCHANGED <<server, state, manifest, chunks, chunkIndex, loading, scanned,
                 shown, elResults, debounceTimer, fetches, started, fetchedOk,
                 lifeQuery, burst, muts, scannedOk, lastMut, probe, verdict, jst_time, cron, jst>>

\* ------------------------------------------------------ filter mutations
\* (variant: the inputs are bound whatever became of the manifest)
InputsBound_Always == initPc # "manifest"

\* bindInputs() has run.
InputsBound == initPc \in {"firstLoad", "observing"}

\* (variant: the pending callback is not cancelled)
ClearTimeout_Keeps(n) == n

\* clearTimeout(debounceTimer): the callback scheduled last is cancelled
\* if it has not run yet.
ClearTimeout(n) == IF n > 0 THEN n - 1 ELSE 0

debounceSearch(n) == ClearTimeout(n) + 1

Mutate(op, st) ==
  /\ InputsBound
  /\ muts < MaxMutations
  /\ muts' = muts + 1
  /\ state' = st
  /\ debounceTimer' = debounceSearch(debounceTimer)
  /\ burst' = burst + 1
  /\ last' = [NoOp EXCEPT !.op = op, !.busy = loading]
  /\ lastMut' = IF op = "clear" THEN "clear" ELSE "field"
  /\ UNCHANGED <<server, initPc, manifest, chunks, chunkIndex, loading, scanned,
                 shown, elResults, elStatus, fetches, started, fetchedOk,
                 lifeQuery, scannedOk, probe, verdict, jst_time, cron, jst>>

OnInputQ == \E v \in TextInputs : Mutate("q", [state EXCEPT !.q = v])

OnChangeMaker == \E v \in MakerOptions : Mutate("maker", [state EXCEPT !.maker = v])

OnChangeSeries == \E v \in SeriesOptions : Mutate("series", [state EXCEPT !.series = v])

OnChangeHasImg == \E b \in BOOLEAN : Mutate("hasImg", [state EXCEPT !.hasImg = b])

OnChangeHasMov == \E b \in BOOLEAN : Mutate("hasMov", [state EXCEPT !.hasMov = b])

toggleTag ==
  \E t \in TagButtons :
    Mutate("tag", [state EXCEPT !.tags = IF t \in @ THEN @ \ {t} ELSE @ \cup {t}])

\* (variant: the selected tags are not cleared)
OnClear_KeepsTags == Mutate("clear", [DefaultState EXCEPT !.tags = state.tags])

OnClear == Mutate("clear", DefaultState)

\* -------------------------------------------------------- the reset
\* (variant: the reset also puts the query state back to its default)
DebounceFire_ClearsQuery ==
  /\ debounceTimer > 0
  /\ debounceTimer' = debounceTimer - 1
  /\ LET s == loadNextChunk(clearResults(Cur), FALSE)
     IN /\ Set(s)
        /\ last' = [NoOp EXCEPT !.op = "reset", !.busy = loading,
                                !.began = Len(s.fetches) > Len(fetches),
                                !.burst = burst]
  /\ state' = DefaultState
  /\ lifeQuery' = DefaultState
  /\ burst' = 0
  /\ UNCHANGED <<server, initPc, fetchedOk, muts, lastMut, probe, verdict, jst_time, cron, jst>>

\* The debounce callback: clearResults(); loadNextChunk().
DebounceFire ==
  /\ debounceTimer > 0
  /\ debounceTimer' = debounceTimer - 1
  /\ LET s == loadNextChunk(clearResults(Cur), FALSE)
     IN /\ Set(s)
        /\ last' = [NoOp EXCEPT !.op = "reset", !.busy = loading,
                                !.began = Len(s.fetches) > Len(fetches),
                                !.burst = burst]
  /\ lifeQuery' = state
  /\ burst' = 0
  /\ UNCHANGED <<server, initPc, state, fetchedOk, muts, lastMut, probe, verdict, jst_time, cron, jst>>

\* The IntersectionObserver callback with an intersecting entry.
Proximity ==
  /\ initPc = "observing"
  /\ LET s == loadNextChunk(Cur, FALSE)
     IN /\ Set(s)
        /\ last' = [NoOp EXCEPT !.op = "proximity", !.busy = loading,
                                !.began = Len(s.fetches) > Len(fetches),
                                !.idx = chunkIndex]
  /\ UNCHANGED <<server, initPc, state, debounceTimer, fetchedOk, lifeQuery, burst, muts, lastMut, probe, verdict, jst_time, cron, jst>>

\* ------------------------------------------- the awaits of loadNextChunk
\* init() awaits its own loadNextChunk call and then installs the observer.
AfterLoad(r) == IF r.init THEN "observing" ELSE initPc

\* fetch() resolved: the invocation now awaits res.json().
ChunkFetchResolve ==
  \E i \in DOMAIN fetches :
    /\ fetches[i].stage = "fetch"
    /\ fetches' = [fetches EXCEPT ![i].stage = "json"]
    /\ last' = [NoOp EXCEPT !.op = "fetched", !.idx = fetches[i].idx]
    /\ UNCHANGED <<server, initPc, state, manifest, chunks, chunkIndex, loading,
                   scanned, shown, elResults, elStatus, debounceTimer, started,
                   fetchedOk, lifeQuery, burst, muts, scannedOk, lastMut, probe, verdict, jst_time, cron, jst>>

\* (variant: the failure path leaves the in-flight flag set)
Failed_KeepsLoading(i, op) ==
  /\ Set(finish_KeepsLoading(Cur, i))
  /\ initPc' = AfterLoad(fetches[i])
  /\ last' = [NoOp EXCEPT !.op = op, !.idx = fetches[i].idx,
                          !.stale = fetches[i].stale]
  /\ UNCHANGED <<server, state, debounceTimer, fetchedOk, lifeQuery, burst, muts, lastMut, probe, verdict, jst_time, cron, jst>>

\* fetch() or res.json() rejected: catch, then finally.
Failed(i, op) ==
  /\ Set(finish(Cur, i))
  /\ initPc' = AfterLoad(fetches[i])
  /\ last' = [NoOp EXCEPT !.op = op, !.idx = fetches[i].idx,
                          !.stale = fetches[i].stale]
  /\ UNCHANGED <<server, state, debounceTimer, fetchedOk, lifeQuery, burst, muts, lastMut, probe, verdict, jst_time, cron, jst>>

ChunkFetchReject ==
  \E i \in DOMAIN fetches : fetches[i].stage = "fetch" /\ Failed(i, "fetchFail")

ChunkJsonReject ==
  \E i \in DOMAIN fetches : fetches[i].stage = "json" /\ Failed(i, "jsonFail")

\* res.json() resolved with the chunk's list of items.
ChunkJsonList ==
  \E i \in DOMAIN fetches :
    LET r == fetches[i]
        items == server.files[r.chunk.file]
    IN /\ r.stage = "json"
       /\ Set(noteScanned(finish(scanItems(Cur, state, items), i), r))
       /\ initPc' = AfterLoad(r)
       /\ fetchedOk' = fetchedOk \cup {r.chunk.file}
       /\ last' = [NoOp EXCEPT !.op = "scan", !.idx = r.idx, !.stale = r.stale,
                               !.hits = Len(Matching(state, items))]
       /\ UNCHANGED <<server, state, debounceTimer, lifeQuery, burst, muts, lastMut, probe, verdict, jst_time, cron, jst>>

\* (variant: the cursor is put back on the chunk that was no list)
ChunkJsonNotList_RollsBack ==
  \E i \in DOMAIN fetches :
    LET r == fetches[i]
    IN /\ r.stage = "json"
       /\ Set([finish(Cur, i) EXCEPT !.chunkIndex = IF @ > 0 THEN @ - 1 ELSE 0])
       /\ initPc' = AfterLoad(r)
       /\ fetchedOk' = fetchedOk \cup {r.chunk.file}
       /\ last' = [NoOp EXCEPT !.op = "notList", !.idx = r.idx, !.stale = r.stale]
       /\ UNCHANGED <<server, state, debounceTimer, lifeQuery, burst, muts, lastMut, probe, verdict, jst_time, cron, jst>>

\* res.json() resolved with something that is not a list.
ChunkJsonNotList ==
  \E i \in DOMAIN fetches :
    LET r == fetches[i]
    IN /\ r.stage = "json"
       /\ Set(finish(Cur, i))
       /\ initPc' = AfterLoad(r)
       /\ fetchedOk' = fetchedOk \cup {r.chunk.file}
       /\ last' = [NoOp EXCEPT !.op = "notList", !.idx = r.idx, !.stale = r.stale]
       /\ UNCHANGED <<server, state, debounceTimer, lifeQuery, burst, muts, lastMut, probe, verdict, jst_time, cron, jst>>

Next ==
  \/ InitManifestOk
  \/ InitManifestFail
  \/ OnInputQ
  \/ OnChangeMaker
  \/ OnChangeSeries
  \/ OnChangeHasImg
  \/ OnChangeHasMov
  \/ toggleTag
  \/ OnClear
  \/ DebounceFire
  \/ Proximity
  \/ ChunkFetchResolve
  \/ ChunkFetchReject
  \/ ChunkJsonReject
  \/ ChunkJsonList
  \/ ChunkJsonNotList

Spec == Init /\ [][Next]_vars

\* ------------------------------------------- matchItem on its own
TagA == <<"a">>
TagB == <<"b">>
TagC == <<"c">>

\* Title and actresses of the probed items.
TextProfiles ==
  {[title |-> <<"A", " ", "b">>, actresses |-> <<>>],
   [title |-> <<"b">>, actresses |-> << <<"B", "a">> >>],
   [title |-> <<" ", "A">>, actresses |-> << <<"a">>, <<"b">> >>]}

TagLists ==
  {<<>>, <<TagA>>, <<TagB>>, <<TagC>>, <<TagA, TagB>>, <<TagC, TagA>>,
   <<TagB, TagC>>, <<TagC, TagA, TagB>>}

\* Well-formed items: every field present and of its type.
ProbeItems ==
  {[id |-> 1, title |-> t.title, maker |-> m, series |-> sr, tags |-> tg,
    actresses |-> t.actresses, has_img |-> hi, has_mov |-> hm] :
     t \in TextProfiles, m \in {MakerX, MakerY, <<"x">>}, sr \in {<<>>, SeriesS},
     tg \in TagLists, hi \in BOOLEAN, hm \in BOOLEAN}

ProbeTexts == {<<>>, <<" ">>, <<"A", " ", "B">>, <<"b", " ">>, <<"a", "a">>}

\* Query states: every text and every tag set on their own, and the
\* combinations of a few texts and tag sets with every selector and flag.
ProbeStates ==
  {st \in [q : ProbeTexts, maker : {<<>>, MakerX}, series : {<<>>, SeriesS},
           hasImg : BOOLEAN, hasMov : BOOLEAN, tags : SUBSET {TagA, TagB, TagC}] :
     \/ [st EXCEPT !.q = <<>>] = DefaultState
     \/ [st EXCEPT !.tags = {}] = DefaultState
     \/ /\ st.q \in {<<>>, <<"A", " ", "B">>, <<"a", "a">>}
        /\ st.tags \in {{}, {TagA}, {TagA, TagB}, {TagA, TagB, TagC}}}

InitMatch ==
  /\ server = Dataset(0)
  /\ initPc = "manifest"
  /\ state = DefaultState
  /\ manifest = <<>>
  /\ chunks = <<>>
  /\ chunkIndex = 0
  /\ loading = FALSE
  /\ scanned = 0
  /\ shown = 0
  /\ elResults = <<>>
  /\ elStatus = NoStatus
  /\ debounceTimer = 0
  /\ fetches = <<>>
  /\ started = <<>>
  /\ fetchedOk = {}
  /\ lifeQuery = DefaultState
  /\ burst = 0
  /\ muts = 0
  /\ last = NoOp
  /\ scannedOk = {}
  /\ lastMut = "none"
  /\ probe \in [st : ProbeStates, it : ProbeItems]
  /\ verdict = "none"
  /\ jst_time = <<>>
  /\ cron = NoResult
  /\ jst = NoResult

\* matchItem is called on the probe.
Evaluate ==
  /\ verdict = "none"
  /\ verdict' = IF matchItem(probe.st, probe.it) THEN "accept" ELSE "reject"
  /\ UNCHANGED <<server, initPc, state, manifest, chunks, chunkIndex, loading,
                 scanned, shown, elResults, elStatus, debounceTimer, fetches,
                 started, fetchedOk, scannedOk, lastMut, lifeQuery, burst, muts,
                 last, probe, jst_time, cron, jst>>

NextMatch == Evaluate

SpecMatch == InitMatch /\ [][NextMatch]_vars

\* An await of a pending loadNextChunk invocation is settled.
Complete ==
  \/ ChunkFetchResolve
  \/ ChunkFetchReject
  \/ ChunkJsonReject
  \/ ChunkJsonList
  \/ ChunkJsonNotList

\* The session with one filter control in use: the cursor never reads the
\* query state, so which control changes it makes no difference to progress.
NextLive ==
  \/ InitManifestOk
  \/ InitManifestFail
  \/ OnChangeHasMov
  \/ DebounceFire
  \/ Proximity
  \/ Complete

\* Every started fetch settles and proximity signals keep arriving.
SpecLive == Init /\ [][NextLive]_vars /\ WF_vars(Complete) /\ WF_vars(Proximity)

\* ------------------------------------- the schedule time on its own
InitCron ==
  /\ server = Dataset(0)
  /\ initPc = "manifest"
  /\ state = DefaultState
  /\ manifest = <<>>
  /\ chunks = <<>>
  /\ chunkIndex = 0
  /\ loading = FALSE
  /\ scanned = 0
  /\ shown = 0
  /\ elResults = <<>>
  /\ elStatus = NoStatus
  /\ debounceTimer = 0
  /\ fetches = <<>>
  /\ started = <<>>
  /\ fetchedOk = {}
  /\ lifeQuery = DefaultState
  /\ burst = 0
  /\ muts = 0
  /\ last = NoOp
  /\ scannedOk = {}
  /\ lastMut = "none"
  /\ probe = NoProbe
  /\ verdict = "none"
  /\ jst_time \in TimeTexts
  /\ cron = NoResult
  /\ jst = NoResult

\* jst_time_to_cron is called on the text.
ToCron ==
  /\ cron = NoResult
  /\ cron' = jst_time_to_cron(jst_time)
  /\ UNCHANGED <<server, initPc, state, manifest, chunks, chunkIndex, loading,
                 scanned, shown, elResults, elStatus, debounceTimer, fetches,
                 started, fetchedOk, scannedOk, lastMut, lifeQuery, burst, muts,
                 last, probe, verdict, jst_time, jst>>

\* cron_to_jst_time is called on the cron text it returned.
ToJst ==
  /\ cron.kind = "value"
  /\ jst = NoResult
  /\ jst' = cron_to_jst_time(cron.text)
  /\ UNCHANGED <<server, initPc, state, manifest, chunks, chunkIndex, loading,
                 scanned, shown, elResults, elStatus, debounceTimer, fetches,
                 started, fetchedOk, scannedOk, lastMut, lifeQuery, burst, muts,
                 last, probe, verdict, jst_time, cron>>

NextCron == ToCron \/ ToJst

SpecCron == InitCron /\ [][NextCron]_vars

\* ======================================================== properties
Triggered == last'.op \in {"proximity", "reset", "init"}

Exhausted == manifest # <<>> /\ chunkIndex = Len(chunks)

\* The fetch the step began (the newest invocation).
Begun == fetches'[Len(fetches')]

\* C1: at most one chunk fetch is in flight in every reachable state; a
\* loadNextChunk call made while a fetch is pending (from a proximity
\* signal, or after the clearResults of a reset) starts no fetch and
\* changes neither chunkIndex, scanned, shown nor the rendered list.
C1_OneFetchInFlight ==
  /\ [](Len(fetches) <= 1 /\ (loading <=> fetches # <<>>))
  /\ [][(Triggered /\ fetches # <<>>) =>
          /\ ~last'.began
          /\ Len(fetches') = Len(fetches)
          /\ \A i \in DOMAIN fetches :
               /\ fetches'[i].chunk = fetches[i].chunk
               /\ fetches'[i].stage = fetches[i].stage
          /\ last'.op = "proximity" =>
               UNCHANGED <<chunkIndex, scanned, shown, elResults>>
          /\ last'.op = "reset" =>
               chunkIndex' = 0 /\ scanned' = 0 /\ shown' = 0 /\ elResults' = <<>>]_vars

C1_Witness ==
  /\ last.op = "proximity" /\ last.busy /\ ~last.began
  /\ Len(fetches) = 1 /\ muts > 0

\* C2: the response of a fetch that was in flight when clearResults ran
\* neither increments scanned or shown nor appends a card.
C2_StaleResponseDiscarded ==
  [][(last'.op = "scan" /\ last'.stale) =>
       UNCHANGED <<scanned, shown, elResults>>]_vars

\* C3: within one query lifetime the fetches started are for the chunk
\* indices 0, 1, 2, ... in manifest order, each once, and never overlap.
C3_SequentialInLifetime ==
  /\ \A i \in DOMAIN started : started[i] = i - 1
  /\ Len(started) = chunkIndex
  /\ Len(fetches) <= 1
  /\ \A i \in DOMAIN fetches :
       /\ manifest # <<>>
       /\ fetches[i].idx + 1 \in DOMAIN manifest[1].chunks
       /\ fetches[i].chunk = manifest[1].chunks[fetches[i].idx + 1]

C3_Witness == started = <<0, 1>> /\ muts > 0 /\ fetches # <<>>

\* The items of all chunks in manifest order.
RECURSIVE Concat(_)
Concat(ss) == IF ss = <<>> THEN <<>> ELSE Head(ss) \o Concat(Tail(ss))

AllCards == LET all == Concat(server.files) IN [i \in DOMAIN all |-> createCard(all[i])]

RECURSIVE IsSubsequence(_, _)
IsSubsequence(a, b) ==
  IF a = <<>> THEN TRUE
  ELSE IF b = <<>> THEN FALSE
  ELSE IF Head(a) = Head(b) THEN IsSubsequence(Tail(a), Tail(b))
  ELSE IsSubsequence(a, Tail(b))

\* C4: the rendered cards are an order-preserving subsequence of the
\* concatenation of the chunks in manifest order.
C4_RenderedInManifestOrder == IsSubsequence(elResults, AllCards)

\* C5: after a chunk fetch or parse failure chunkIndex equals its value
\* before the load was attempted.
C5_CursorNotAdvancedOnFailure ==
  [][last'.op \in {"fetchFail", "jsonFail"} => chunkIndex' = last'.idx]_vars

\* C6: a debounced reset starts exactly one chunk load, for chunk index 0,
\* whenever the manifest has a chunk, also with a fetch still in flight.
C6_ResetStartsFirstLoad ==
  [][(last'.op = "reset" /\ Len(chunks') >= 1) =>
       /\ last'.began
       /\ Len(fetches') = Len(fetches) + 1
       /\ Begun.idx = 0 /\ ~Begun.stale
       /\ chunkIndex' = 1]_vars

\* C7: any number of filter mutations made before the scheduled callback
\* runs leave exactly one callback pending; it runs the reset once and the
\* reset sees the query state of the last mutation.
C7_DebounceCoalesces ==
  /\ [](debounceTimer = IF burst > 0 THEN 1 ELSE 0)
  /\ [][last'.op = "reset" =>
          /\ debounceTimer = 1 /\ debounceTimer' = 0 /\ burst' = 0
          /\ state' = state /\ lifeQuery' = state
          /\ elResults' = <<>> /\ scanned' = 0 /\ shown' = 0]_vars

C7_Witness == last.op = "reset" /\ last.burst >= 2 /\ state # DefaultState

\* C8: once chunkIndex has reached the number of chunk descriptors a
\* trigger starts no fetch and changes neither chunkIndex, scanned, shown
\* nor the rendered list, and only a reset leaves that state.
C8_ExhaustedIsTerminal ==
  /\ [](chunkIndex <= Len(chunks))
  /\ [][(Exhausted /\ last'.op = "proximity") =>
          /\ ~last'.began
          /\ UNCHANGED <<fetches, chunkIndex, scanned, shown, elResults>>]_vars
  /\ [][(Exhausted /\ ~(manifest' # <<>> /\ chunkIndex' = Len(chunks'))) =>
          last'.op = "reset"]_vars

C8_Witness ==
  /\ last.op = "proximity" /\ ~last.busy /\ ~last.began
  /\ Exhausted /\ Len(chunks) = NumChunks

\* C9 as stated: a chunk fetched successfully once in the session is never
\* fetched again, also after a reset.
C9_NeverRefetchedInSession ==
  [][last'.began => Begun.chunk.file \notin fetchedOk]_vars

\* C9 as amended: a chunk whose fetch was started in a query lifetime is
\* not fetched again in that lifetime.
C9_NeverRefetchedInLifetime ==
  \A i, j \in DOMAIN started : i # j => started[i] # started[j]

C9_Witness ==
  /\ last.op = "reset" /\ last.began
  /\ fetches # <<>> /\ fetches[1].chunk.file \in fetchedOk

\* C10: a successful scan of a list of n items of which m satisfy the
\* predicate under the current query state adds n to scanned and m to
\* shown and appends exactly those m items, in their order, as cards.
C10_ScanCounts ==
  [][last'.op = "scan" =>
       LET items == server.files[last'.idx + 1]
           ok == {j \in DOMAIN items : matchItem(state, items[j])}
           new == SubSeq(elResults', Len(elResults) + 1, Len(elResults'))
       IN /\ scanned' = scanned + Len(items)
          /\ shown' = shown + Cardinality(ok)
          /\ Len(elResults') = Len(elResults) + Cardinality(ok)
          /\ SubSeq(elResults', 1, Len(elResults)) = elResults
          /\ \A j \in ok : \E p \in DOMAIN new : new[p] = createCard(items[j])
          /\ \A p, r \in DOMAIN new :
               p < r => \E j, k \in ok :
                          /\ j < k
                          /\ new[p] = createCard(items[j])
                          /\ new[r] = createCard(items[k])]_vars

C10_Witness ==
  /\ last.op = "scan" /\ last.hits > 0
  /\ last.hits < Len(server.files[last.idx + 1])

\* C11: after a manifest fetch or parse failure the session is halted for
\* good: no handler is bound (the query state stays as constructed and no
\* reset is ever scheduled), no observer is installed, no chunk fetch is
\* ever started and the status line keeps the failure message.
C11_ManifestFailureHalts ==
  /\ [](initPc = "halted" =>
          /\ elStatus = FailStatus
          /\ manifest = <<>> /\ fetches = <<>> /\ started = <<>> /\ ~loading
          /\ state = DefaultState /\ debounceTimer = 0 /\ muts = 0
          /\ elResults = <<>>)
  /\ [][initPc = "halted" => UNCHANGED vars]_vars
  /\ [][last'.op = "manifestFail" => initPc' = "halted" /\ elStatus' = FailStatus]_vars

C11_Witness == initPc = "halted" /\ last.op = "manifestFail" /\ Len(server.files) = NumChunks

\* Every card of the dataset is on the result surface.
AllRendered == \A i \in DOMAIN AllCards : \E p \in DOMAIN elResults : elResults[p] = AllCards[i]

\* The reset scheduled last has run and every chunk of its lifetime was
\* fetched and scanned.
LifetimeComplete ==
  /\ manifest # <<>> /\ debounceTimer = 0 /\ fetches = <<>>
  /\ scannedOk = {c - 1 : c \in DOMAIN chunks}

\* C12: the clear-all handler leaves every field of the query state at
\* its default and schedules the reset; once that reset has run and every
\* chunk was loaded without failure every item of the dataset is rendered.
C12_ClearRestoresAll ==
  /\ [][last'.op = "clear" =>
          /\ state' = DefaultState
          /\ debounceTimer' = 1 /\ burst' = burst + 1]_vars
  /\ []((lastMut = "clear" /\ LifetimeComplete) =>
          state = DefaultState /\ lifeQuery = DefaultState /\ AllRendered)

C12_Witness ==
  /\ lastMut = "clear" /\ LifetimeComplete /\ muts = 2
  /\ Len(chunks) = NumChunks /\ last.op = "scan"

\* C13: once the manifest has loaded, with every fetch settling and
\* proximity signals arriving, the driver reaches Exhausted with no fetch
\* in flight (filter mutations are finitely many).
C13_ReachesExhausted == (manifest # <<>>) ~> (Exhausted /\ fetches = <<>> /\ ~loading)

C13_Witness ==
  /\ Exhausted /\ fetches = <<>> /\ ~loading
  /\ Len(chunks) = NumChunks /\ Len(started) = NumChunks
  /\ last.op \in {"scan", "notList", "fetchFail", "jsonFail"} /\ muts = MaxMutations

Evaluated == verdict # "none"

\* C14: under the all-default query state matchItem accepts every
\* well-formed item.
C14_DefaultAcceptsAll ==
  (Evaluated /\ probe.st = DefaultState) => verdict = "accept"

C14_Witness ==
  /\ verdict = "accept" /\ probe.st = DefaultState
  /\ ~probe.it.has_img /\ ~probe.it.has_mov /\ probe.it.tags = <<>>
  /\ probe.it.series = <<>>

\* C15: with every other field at its default, hasImg rejects exactly
\* the items whose has_img is false, and hasMov exactly those whose
\* has_mov is false.
C15_FlagsExcludeExactly ==
  /\ (Evaluated /\ probe.st = [DefaultState EXCEPT !.hasImg = TRUE]) =>
       (verdict = "reject" <=> ~probe.it.has_img)
  /\ (Evaluated /\ probe.st = [DefaultState EXCEPT !.hasMov = TRUE]) =>
       (verdict = "reject" <=> ~probe.it.has_mov)

C15_Witness ==
  /\ probe.st = [DefaultState EXCEPT !.hasMov = TRUE]
  /\ verdict = "reject" /\ probe.it.has_img /\ ~probe.it.has_mov

TagSetOf(it) == {it.tags[i] : i \in DOMAIN it.tags}

\* C16: with every other field at its default and a non-empty set of
\* required tags, matchItem accepts iff the item's tags are a superset.
C16_TagsSuperset ==
  (Evaluated /\ probe.st.tags # {} /\ [probe.st EXCEPT !.tags = {}] = DefaultState) =>
    (verdict = "accept" <=> probe.st.tags \subseteq TagSetOf(probe.it))

C16_Witness ==
  /\ probe.st = [DefaultState EXCEPT !.tags = {TagA, TagB}]
  /\ probe.it.tags = <<TagC, TagA, TagB>> /\ verdict = "accept"

\* n is s lowercased with the spaces at both ends removed.
IsNormalized(n, s) ==
  /\ n = <<>> \/ (n[1] # " " /\ n[Len(n)] # " ")
  /\ \E i \in 0..Len(s) :
       /\ i + Len(n) <= Len(s)
       /\ \A k \in 1..Len(s) :
            IF k > i /\ k <= i + Len(n) THEN n[k - i] = Lower(s[k]) ELSE s[k] = " "

\* The fields with one space between neighbours, built from the right.
RECURSIVE Spaced(_)
Spaced(fs) ==
  IF fs = <<>> THEN <<>>
  ELSE IF Len(fs) = 1 THEN fs[1]
  ELSE Spaced(SubSeq(fs, 1, Len(fs) - 1)) \o <<" ">> \o fs[Len(fs)]

FieldsOf(it) == <<it.title, it.maker, it.series>> \o it.tags \o it.actresses

\* The strings over which the normal forms are sought.
Cut(s) == {SubSeq(s, i, j) : i \in 1..(Len(s) + 1), j \in 0..Len(s)}

NormalOf(s) == CHOOSE n \in Cut([k \in DOMAIN s |-> Lower(s[k])]) : IsNormalized(n, s)

Contains(h, q) ==
  \E i \in 0..(Len(h) - Len(q)) : \A k \in 1..Len(q) : h[i + k] = q[k]

\* C17: with every other field at its default, a query that is empty
\* after lowercasing and trimming accepts every item, and any other
\* query accepts iff its normal form is a contiguous substring of the
\* lowercased, trimmed title, maker, series, tags and actresses joined
\* by single spaces.
C17_TextIsSubstring ==
  (Evaluated /\ [probe.st EXCEPT !.q = <<>>] = DefaultState) =>
    LET q == NormalOf(probe.st.q)
        fs == FieldsOf(probe.it)
        nfs == [i \in DOMAIN fs |-> NormalOf(fs[i])]
    IN IF q = <<>> THEN verdict = "accept"
       ELSE verdict = "accept" <=> Contains(Spaced(nfs), q)

C17_Witness ==
  /\ probe.st = [DefaultState EXCEPT !.q = <<"A", " ", "B">>]
  /\ probe.it.title = <<" ", "A">> /\ probe.it.tags = <<>> /\ verdict = "accept"

MovOnly == [DefaultState EXCEPT !.hasMov = TRUE]

Counts(sh, sc, tot) == [kind |-> "counts", shown |-> sh, scanned |-> sc, total |-> tot]

\* C18: with total 5 and chunks of 3 and 2 items of which only one item
\* of chunk 1 has a movie, under the movie filter the first chunk load of
\* the reset leaves exactly that card and shown=1, scanned=3, total=5, and
\* the load of chunk 2 leaves shown=1, scanned=5.
C18_EndToEnd ==
  (/\ server = Dataset(2)
   /\ state = MovOnly /\ lifeQuery = MovOnly /\ debounceTimer = 0
   /\ last.op = "scan" /\ ~last.stale) =>
     /\ last.idx = 0 =>
          /\ elResults = <<createCard(Item(2))>>
          /\ elStatus = Counts(1, 3, 5)
     /\ (last.idx = 1 /\ scannedOk = {0, 1}) =>
          /\ elResults = <<createCard(Item(2))>>
          /\ elStatus = Counts(1, 5, 5)

\* The cards of the items of a chunk that the query state st accepts.
CardsUnder(st, items) ==
  LET hits == Matching(st, items) IN [i \in DOMAIN hits |-> createCard(hits[i])]

\* C19: a chunk scan of the current lifetime filters under the query state
\* in force at the most recent reset, also when the scan completes inside
\* a coalescing window: the cards it appends to the surface are those of
\* the chunk's items that the lifetime's query accepts.
C19_ScanUsesLifetimeQuery ==
  [][(last'.op = "scan" /\ ~last'.stale) =>
        elResults' = elResults \o
          CardsUnder(lifeQuery, server.files[manifest[1].chunks[last'.idx + 1].file])]_vars

\* C20: clearResults leaves, from any state, an empty list, chunkIndex 0,
\* scanned 0, shown 0 and the manifest's chunk list; the reset handler
\* runs it in one step, followed only by the first loadNextChunk call.
C20_ResetIsTotal ==
  /\ [](LET s == clearResults(Cur)
         IN /\ s.elResults = <<>> /\ s.chunkIndex = 0
            /\ s.scanned = 0 /\ s.shown = 0
            /\ s.chunks = IF manifest # <<>> THEN manifest[1].chunks ELSE <<>>
            /\ s.manifest = manifest /\ s.loading = loading
            /\ Len(s.fetches) = Len(fetches))
  /\ [][last'.op \in {"reset", "init"} =>
          /\ elResults' = <<>> /\ scanned' = 0 /\ shown' = 0
          /\ chunks' = manifest'[1].chunks
          /\ chunkIndex' = (IF last'.began THEN 1 ELSE 0)
          /\ elStatus' = Counts(0, 0, manifest'[1].total)]_vars

C20_Witness ==
  /\ last.op = "reset" /\ ~last.busy /\ fetchedOk # {}
  /\ elResults = <<>> /\ scanned = 0 /\ chunks # <<>>

LoadFailed(op) == op \in {"fetchFail", "jsonFail"}

\* C21: a chunk fetch or parse failure changes neither scanned, shown, the
\* rendered list nor the status line and clears the in-flight flag; if a
\* chunk is left under the cursor the next loadNextChunk call starts a
\* fetch.
C21_FailureLeavesSurface ==
  /\ [][LoadFailed(last'.op) =>
          /\ scanned' = scanned /\ shown' = shown
          /\ elResults' = elResults /\ elStatus' = elStatus
          /\ loading /\ ~loading']_vars
  /\ []((LoadFailed(last.op) /\ chunkIndex < Len(chunks)) =>
          /\ CanLoad(Cur)
          /\ loadNextChunk(Cur, FALSE).loading
          /\ Len(loadNextChunk(Cur, FALSE).fetches) = Len(fetches) + 1)

C21_Witness ==
  /\ LoadFailed(last.op) /\ ~last.stale /\ scanned > 0 /\ elResults # <<>>
  /\ chunkIndex < Len(chunks)

IsPrefix(a, b) == Len(a) <= Len(b) /\ SubSeq(b, 1, Len(a)) = a

\* C22: every step that is not a reset (a chunk scan, a failed load, a
\* trigger that starts a fetch or none, a filter mutation) leaves the
\* rendered cards as a prefix of the new rendered sequence.
C22_AppendOnly ==
  [][last'.op \notin {"reset", "init"} => IsPrefix(elResults, elResults')]_vars

C22_Witness ==
  /\ last.op = "scan" /\ last.idx = 1 /\ ~last.stale /\ last.hits > 0
  /\ Len(elResults) > last.hits

\* C23: once the manifest has loaded the status line shows the current
\* shown, scanned and manifest.total in every state between handler runs.
C23_StatusShowsCounters ==
  manifest # <<>> => elStatus = Counts(shown, scanned, manifest[1].total)

C23_Witness ==
  /\ last.op = "scan" /\ scanned > shown /\ shown > 0
  /\ elStatus = Counts(shown, scanned, manifest[1].total)

FilterEvents == {"q", "maker", "series", "hasImg", "hasMov", "tag", "clear"}

\* C24: only the user's filter events (text, maker, series, flags, tag,
\* clear) change the query state: a chunk load starting, completing or
\* failing, a proximity signal, the scan with its predicate evaluations
\* and the reset leave every field as it was.
C24_OnlyFilterEventsMutate ==
  [][last'.op \notin FilterEvents => state' = state]_vars

C24_Witness ==
  /\ last.op = "scan" /\ ~last.stale /\ state # DefaultState
  /\ state = lifeQuery /\ debounceTimer = 0 /\ last.hits > 0

\* C25: matchItem accepts exactly when all six conditions hold: the two
\* flags imply the item's flags, a chosen maker and a chosen series equal
\* the item's as stored, the required tags are among the item's tags, and
\* the normalised text is empty or a substring of the haystack.
C25_SixConditions ==
  Evaluated =>
    LET st == probe.st
        it == probe.it
        q == NormalOf(st.q)
        fs == FieldsOf(it)
        nfs == [i \in DOMAIN fs |-> NormalOf(fs[i])]
    IN verdict = "accept" <=>
         /\ st.hasImg => it.has_img
         /\ st.hasMov => it.has_mov
         /\ st.maker # <<>> => it.maker = st.maker
         /\ st.series # <<>> => it.series = st.series
         /\ st.tags \subseteq TagSetOf(it)
         /\ q = <<>> \/ Contains(Spaced(nfs), q)

C25_Witness ==
  /\ verdict = "reject" /\ probe.st.maker = MakerX /\ probe.it.maker = <<"x">>
  /\ probe.st.hasImg /\ probe.it.has_img /\ probe.st.hasMov /\ probe.it.has_mov
  /\ probe.st.series = probe.it.series /\ probe.st.series # <<>>
  /\ probe.st.tags = {TagA} /\ probe.it.tags = <<TagC, TagA>>
  /\ probe.st.q = <<"a", "a">>

\* The item a card renders.
ItemOfCard(c) ==
  LET all == Concat(server.files)
  IN all[CHOOSE i \in DOMAIN all : createCard(all[i]) = c]

\* C26: whenever no debounce timer is pending every card on the result
\* surface renders an item that matchItem accepts under the current
\* query state.
C26_SettledSurfaceMatches ==
  debounceTimer = 0 =>
    \A p \in DOMAIN elResults : matchItem(state, ItemOfCard(elResults[p]))

C26_Witness ==
  /\ debounceTimer = 0 /\ state # DefaultState /\ elResults # <<>>
  /\ last.op = "scan" /\ last.stale /\ last.hits < Len(server.files[last.idx + 1])

\* C27: no item is rendered twice (the ids of the dataset are unique).
C27_NoDuplicateCards ==
  \A p, r \in DOMAIN elResults : elResults[p] = elResults[r] => p = r

\* C28: scanned never exceeds manifest.total (which is the number of
\* items of all chunks).
C28_ScannedAtMostTotal ==
  manifest # <<>> => scanned <= manifest[1].total

\* C29: the cursor lies between 0 and the number of chunk descriptors,
\* shown between 0 and scanned, and shown is the number of rendered cards.
C29_WellFormed ==
  /\ 0 <= chunkIndex /\ chunkIndex <= Len(chunks)
  /\ 0 <= shown /\ shown <= scanned
  /\ shown = Len(elResults)

C29_Witness ==
  /\ Len(chunks) = NumChunks /\ chunkIndex = Len(chunks)
  /\ 0 < shown /\ shown < scanned /\ shown = Len(elResults)
  /\ scanned > manifest[1].total

\* C30: when a lifetime without filter mutation and without failed fetch
\* has reached Exhausted and its last load is over, the rendered list is
\* the sequence of the dataset's items that the lifetime's query accepts,
\* shown is their number and scanned the number of items of all chunks.
C30_ExhaustedRendersAllMatches ==
  (LifetimeComplete /\ Exhausted /\ state = lifeQuery) =>
    LET all == Concat(server.files)
    IN /\ elResults = CardsUnder(lifeQuery, all)
       /\ shown = Len(CardsUnder(lifeQuery, all))
       /\ scanned = Len(all)

\* C31: a chunk response that parses but is no list changes neither
\* scanned, shown, the rendered list nor the status, clears the in-flight
\* flag and leaves chunkIndex where the start of the load put it, one past
\* the chunk; the next loadNextChunk call fetches the chunk after it.
C31_NotListSkipped ==
  /\ [][last'.op = "notList" =>
          /\ scanned' = scanned /\ shown' = shown
          /\ elResults' = elResults /\ elStatus' = elStatus
          /\ loading /\ ~loading'
          /\ chunkIndex' = chunkIndex /\ chunks' = chunks
          /\ ~last'.stale => chunkIndex' = last'.idx + 1]_vars
  /\ []((last.op = "notList" /\ ~last.stale /\ chunkIndex < Len(chunks)) =>
          LET s == loadNextChunk(Cur, FALSE)
          IN /\ Len(s.fetches) = Len(fetches) + 1
             /\ s.fetches[Len(s.fetches)].idx = last.idx + 1
             /\ s.fetches[Len(s.fetches)].chunk = manifest[1].chunks[last.idx + 2])

C31_Witness ==
  /\ last.op = "notList" /\ ~last.stale /\ last.idx = 0
  /\ chunkIndex = 1 /\ chunkIndex < Len(chunks) /\ ~loading /\ scanned = 0

\* The zero-padded and the unpadded spelling of hour h and minute m.
Canon(h, m) ==
  <<Digits[(h \div 10) + 1], Digits[(h % 10) + 1], ":",
    Digits[(m \div 10) + 1], Digits[(m % 10) + 1]>>

Short(h, m) == Tail(Canon(h, m))

EndsWith(t, e) == Len(t) >= Len(e) /\ SubSeq(t, Len(t) - Len(e) + 1, Len(t)) = e

Spellings(h, m) == IF h < 10 THEN {Canon(h, m), Short(h, m)} ELSE {Canon(h, m)}

\* C32: for every hour 0..23 and minute 0..59 jst_time_to_cron returns
\* the cron text of minute and UTC hour (h - 9) mod 24, and
\* cron_to_jst_time of that text returns the time zero-padded as HH:MM;
\* for an hour above 23 or a minute above 59 jst_time_to_cron raises
\* ValueError.
C32_CronRoundTrip ==
  cron # NoResult =>
    \A m \in 0..99 :
      EndsWith(jst_time, SubSeq(Canon(0, m), 4, 5)) =>
        \A h \in 0..99 :
          jst_time \in Spellings(h, m) =>
            IF h <= 23 /\ m <= 59
            THEN /\ cron = Returned(Dec(m) \o <<" ">> \o Dec((h + 15) % 24) \o
                                    <<" ", "*", " ", "*", " ", "*">>)
                 /\ jst # NoResult => jst = Returned(Canon(h, m))
            ELSE cron = RaisedValueError /\ jst = NoResult

C32_Witness ==
  /\ jst_time = <<"7", ":", "0", "5">>
  /\ cron.text = <<"5", " ", "2", "2", " ", "*", " ", "*", " ", "*">>
  /\ jst = Returned(<<"0", "7", ":", "0", "5">>)

====
